---- MODULE Spec2Model ----
(***************************************************************************)
(* A model of zipline.modelling.pipeline.Pipeline: a named container of    *)
(* columns (name -> term) and an optional screen, mutated by add, remove   *)
(* and set_screen and compiled by to_graph.                                *)
(*                                                                         *)
(* Python values are records [cls, val]; a dict is a TLA+ function from    *)
(* key values to values.  Every method is an operator from the receiver    *)
(* and the arguments to an outcome: the receiver afterwards, what the call *)
(* returned or raised, and the mappings it handed to TermGraph.            *)
(***************************************************************************)
EXTENDS Integers, Sequences, FiniteSets, TLC

VARIABLES
    name,        \* Pipeline._name
    columns,     \* Pipeline._columns, a dict
    screen,      \* Pipeline._screen, None or a Filter
    constructed, \* FALSE when __init__ raised: there is no container
    call,        \* the latest call: its method and arguments
    ret,         \* what the latest call returned or raised
    graph_args,  \* the mappings the latest call handed to TermGraph
    pre,         \* name, columns and screen as they were before the latest call
    \* two containers and the dict objects they refer to
    heap,        \* the dict objects, by address
    objs,        \* the two containers; _columns is a reference into heap
    made,        \* the arguments each of the two was constructed with
    heap_pre     \* heap as it was before the latest call

vars == <<name, columns, screen, constructed, call, ret, graph_args, pre,
          heap, objs, made, heap_pre>>

---------------------------------------------------------------------------
(* Bounds *)

\* how many of the column names below the calls draw from
MaxNames == 2

---------------------------------------------------------------------------
(* Python values *)

PyStr(s) == [cls |-> "str", val |-> s]
PyInt(i) == [cls |-> "int", val |-> i]
None == [cls |-> "NoneType", val |-> "None"]
Dict(d) == [cls |-> "dict", val |-> d]

\* instances of the term classes the tests declare
SomeFactor == [cls |-> "SomeFactor", val |-> "SomeFactor()"]
SomeOtherFactor == [cls |-> "SomeOtherFactor", val |-> "SomeOtherFactor()"]
SomeFilter == [cls |-> "SomeFilter", val |-> "SomeFilter()"]
SomeOtherFilter == [cls |-> "SomeOtherFilter", val |-> "SomeOtherFilter()"]

\* the artifact the graph compiler returns; its content is not modelled
TermGraph == [cls |-> "TermGraph", val |-> "TermGraph(...)"]

\* the classes a value's class inherits from, itself included
mro(cls) ==
    CASE cls = "SomeFactor" -> {"SomeFactor", "Factor", "Term", "object"}
      [] cls = "SomeOtherFactor" -> {"SomeOtherFactor", "Factor", "Term", "object"}
      [] cls = "SomeFilter" -> {"SomeFilter", "Filter", "Term", "object"}
      [] cls = "SomeOtherFilter" -> {"SomeOtherFilter", "Filter", "Term", "object"}
      [] OTHER -> {cls, "object"}

isinstance(v, type) == type \in mro(v.cls)

\* the types a parameter is expected to have: type itself, or, for
\* optional(type), None as well
required(type) == {type}
optional(type) == {type, "NoneType"}

\* expect_types: TRUE when every argument is an instance of one of the
\* types expected of it; the decorated function runs only then, and the
\* call raises TypeError otherwise.  checks is a sequence of
\* <<argument, expected types>>.
expect_types(checks) ==
    \A i \in 1..Len(checks) :
        \E type \in checks[i][2] : isinstance(checks[i][1], type)

\* the TypeError of expect_types; its message is composed outside this file
TypeError == [exc |-> "TypeError", args |-> <<>>, value |-> None]

\* dict operations
EmptyDict == [k \in {} |-> None]
dict_setitem(d, k, v) == [x \in DOMAIN d \cup {k} |-> IF x = k THEN v ELSE d[x]]
dict_copy(d) == [x \in DOMAIN d |-> d[x]]

---------------------------------------------------------------------------
(* What a call does *)

Return(v) == [exc |-> "none", args |-> <<>>, value |-> v]
Raise(exc, args) == [exc |-> exc, args |-> args, value |-> None]

Self(n, c, s) == [name |-> n, columns |-> c, screen |-> s]
Outcome(self, r, g) == [self |-> self, ret |-> r, graph_args |-> g]

\* dict.pop(k) with no default
dict_pop(d, k) ==
    IF k \in DOMAIN d
    THEN [d |-> [x \in DOMAIN d \ {k} |-> d[x]], ret |-> Return(d[k])]
    ELSE [d |-> d, ret |-> Raise("KeyError", <<k>>)]

\* __init__ that starts from an empty mapping whatever columns is given
Pipeline_discarding_columns(n, c, s) ==
    IF ~expect_types(<< <<n, required("str")>>,
                        <<c, optional("dict")>>,
                        <<s, optional("Filter")>> >>)
    THEN [constructed |-> FALSE, self |-> Self(None, EmptyDict, None), ret |-> TypeError]
    ELSE [constructed |-> TRUE, self |-> Self(n, EmptyDict, s), ret |-> Return(None)]

\* Pipeline.__init__: the outcome of Pipeline(n, c, s).  On a TypeError no
\* slot has been assigned and no instance is produced.
Pipeline(n, c, s) ==
    IF ~expect_types(<< <<n, required("str")>>,
                        <<c, optional("dict")>>,
                        <<s, optional("Filter")>> >>)
    THEN [constructed |-> FALSE, self |-> Self(None, EmptyDict, None), ret |-> TypeError]
    ELSE [constructed |-> TRUE,
          self |-> Self(n, IF c = None THEN EmptyDict ELSE c.val, s),
          ret |-> Return(None)]

\* remove with a default given to pop: an absent name is passed over
remove_with_pop_default(self, nm) ==
    IF ~expect_types(<< <<nm, required("str")>> >>)
    THEN Outcome(self, TypeError, <<>>)
    ELSE IF nm \in DOMAIN self.columns
    THEN LET popped == dict_pop(self.columns, nm)
         IN  Outcome([self EXCEPT !.columns = popped.d], popped.ret, <<>>)
    ELSE Outcome(self, Return(None), <<>>)

\* remove that reads the entry and leaves it in place
remove_without_delete(self, nm) ==
    IF ~expect_types(<< <<nm, required("str")>> >>)
    THEN Outcome(self, TypeError, <<>>)
    ELSE Outcome(self, dict_pop(self.columns, nm).ret, <<>>)

\* Pipeline.remove
remove(self, nm) ==
    IF ~expect_types(<< <<nm, required("str")>> >>)
    THEN Outcome(self, TypeError, <<>>)
    ELSE LET popped == dict_pop(self.columns, nm)
         IN  Outcome([self EXCEPT !.columns = popped.d], popped.ret, <<>>)

\* self._columns[name] = term, the last statement of add
bind_column(self, nm, term) ==
    Outcome([self EXCEPT !.columns = dict_setitem(self.columns, nm, term)],
            Return(None), <<>>)

\* the message of add's KeyError
already_exists(nm) == PyStr("Column '" \o nm.val \o "' already exists.")

\* add that never raises on a name already bound
add_without_collision_check(self, term, nm, overwrite) ==
    IF ~expect_types(<< <<term, required("Term")>>, <<nm, required("str")>> >>)
    THEN Outcome(self, TypeError, <<>>)
    ELSE IF nm \in DOMAIN self.columns
    THEN LET removed == remove(self, nm)
         IN  IF removed.ret.exc # "none"
             THEN removed
             ELSE bind_column(removed.self, nm, term)
    ELSE bind_column(self, nm, term)

\* add that checks only the name before it removes the existing entry, and
\* the term afterwards
add_checking_term_late(self, term, nm, overwrite) ==
    IF ~expect_types(<< <<nm, required("str")>> >>)
    THEN Outcome(self, TypeError, <<>>)
    ELSE IF nm \in DOMAIN self.columns /\ ~overwrite
    THEN IF ~expect_types(<< <<term, required("Term")>> >>)
         THEN Outcome(self, TypeError, <<>>)
         ELSE Outcome(self, Raise("KeyError", <<already_exists(nm)>>), <<>>)
    ELSE LET removed == IF nm \in DOMAIN self.columns
                        THEN remove(self, nm)
                        ELSE Outcome(self, Return(None), <<>>)
         IN  IF ~expect_types(<< <<term, required("Term")>> >>)
             THEN Outcome(removed.self, TypeError, <<>>)
             ELSE bind_column(removed.self, nm, term)

\* add that removes the existing entry on overwrite and binds nothing
add_overwrite_only_removes(self, term, nm, overwrite) ==
    IF ~expect_types(<< <<term, required("Term")>>, <<nm, required("str")>> >>)
    THEN Outcome(self, TypeError, <<>>)
    ELSE IF nm \in DOMAIN self.columns
    THEN IF overwrite
         THEN Outcome(remove(self, nm).self, Return(None), <<>>)
         ELSE Outcome(self, Raise("KeyError", <<already_exists(nm)>>), <<>>)
    ELSE bind_column(self, nm, term)

\* add that, on overwrite, rebuilds columns from the new entry alone
add_rebuilding_columns(self, term, nm, overwrite) ==
    IF ~expect_types(<< <<term, required("Term")>>, <<nm, required("str")>> >>)
    THEN Outcome(self, TypeError, <<>>)
    ELSE IF nm \in DOMAIN self.columns
    THEN IF overwrite
         THEN Outcome([self EXCEPT !.columns = dict_setitem(EmptyDict, nm, term)],
                      Return(None), <<>>)
         ELSE Outcome(self, Raise("KeyError", <<already_exists(nm)>>), <<>>)
    ELSE bind_column(self, nm, term)

\* add that, on overwrite, calls remove whether or not the name is bound
add_removing_unconditionally(self, term, nm, overwrite) ==
    IF ~expect_types(<< <<term, required("Term")>>, <<nm, required("str")>> >>)
    THEN Outcome(self, TypeError, <<>>)
    ELSE IF overwrite
    THEN LET removed == remove(self, nm)
         IN  IF removed.ret.exc # "none"
             THEN removed
             ELSE bind_column(removed.self, nm, term)
    ELSE IF nm \in DOMAIN self.columns
    THEN Outcome(self, Raise("KeyError", <<already_exists(nm)>>), <<>>)
    ELSE bind_column(self, nm, term)

\* Pipeline.add
add(self, term, nm, overwrite) ==
    IF ~expect_types(<< <<term, required("Term")>>, <<nm, required("str")>> >>)
    THEN Outcome(self, TypeError, <<>>)
    ELSE IF nm \in DOMAIN self.columns
    THEN IF overwrite
         THEN LET removed == remove(self, nm)
              IN  IF removed.ret.exc # "none"
                  THEN removed
                  ELSE bind_column(removed.self, nm, term)
         ELSE Outcome(self, Raise("KeyError", <<already_exists(nm)>>), <<>>)
    ELSE bind_column(self, nm, term)

\* the message of set_screen's ValueError
screen_already_set ==
    PyStr("set_screen() called with overwrite=False and screen already set.\n"
          \o "If you want to apply multiple filters as a screen use "
          \o "set_screen(filter1 & filter2 & ...).\n"
          \o "If you want to replace the previous screen with a new one, "
          \o "use set_screen(new_filter, overwrite=True).")

\* set_screen that replaces a screen already set whatever overwrite is
set_screen_without_guard(self, scr, overwrite) ==
    IF ~expect_types(<< <<scr, required("Filter")>> >>)
    THEN Outcome(self, TypeError, <<>>)
    ELSE Outcome([self EXCEPT !.screen = scr], Return(None), <<>>)

\* set_screen that expects a Term where it should expect a Filter
set_screen_expecting_term(self, scr, overwrite) ==
    IF ~expect_types(<< <<scr, required("Term")>> >>)
    THEN Outcome(self, TypeError, <<>>)
    ELSE IF self.screen # None /\ ~overwrite
    THEN Outcome(self, Raise("ValueError", <<screen_already_set>>), <<>>)
    ELSE Outcome([self EXCEPT !.screen = scr], Return(None), <<>>)

\* set_screen whose guard reads "or" for "and"
set_screen_guard_or(self, scr, overwrite) ==
    IF ~expect_types(<< <<scr, required("Filter")>> >>)
    THEN Outcome(self, TypeError, <<>>)
    ELSE IF self.screen # None \/ ~overwrite
    THEN Outcome(self, Raise("ValueError", <<screen_already_set>>), <<>>)
    ELSE Outcome([self EXCEPT !.screen = scr], Return(None), <<>>)

\* set_screen that expects optional(Filter), as __init__ does
set_screen_optional_filter(self, scr, overwrite) ==
    IF ~expect_types(<< <<scr, optional("Filter")>> >>)
    THEN Outcome(self, TypeError, <<>>)
    ELSE IF self.screen # None /\ ~overwrite
    THEN Outcome(self, Raise("ValueError", <<screen_already_set>>), <<>>)
    ELSE Outcome([self EXCEPT !.screen = scr], Return(None), <<>>)

\* Pipeline.set_screen
set_screen(self, scr, overwrite) ==
    IF ~expect_types(<< <<scr, required("Filter")>> >>)
    THEN Outcome(self, TypeError, <<>>)
    ELSE IF self.screen # None /\ ~overwrite
    THEN Outcome(self, Raise("ValueError", <<screen_already_set>>), <<>>)
    ELSE Outcome([self EXCEPT !.screen = scr], Return(None), <<>>)

\* to_graph that writes the screen into self.columns, not into a copy
to_graph_without_copy(self, screen_name, default_screen) ==
    LET scr == IF self.screen = None THEN default_screen ELSE self.screen
        cols == dict_setitem(self.columns, screen_name, scr)
    IN  Outcome([self EXCEPT !.columns = cols], Return(TermGraph), <<cols>>)

\* to_graph that hands over default_screen whatever self.screen is
to_graph_ignoring_screen(self, screen_name, default_screen) ==
    LET copied == dict_copy(self.columns)
        cols == dict_setitem(copied, screen_name, default_screen)
    IN  Outcome(self, Return(TermGraph), <<cols>>)

\* to_graph that keeps the column of a screen_name already bound
\* (setdefault where the code assigns)
to_graph_keeping_column(self, screen_name, default_screen) ==
    LET copied == dict_copy(self.columns)
        scr == IF self.screen = None THEN default_screen ELSE self.screen
        cols == IF screen_name \in DOMAIN copied
                THEN copied
                ELSE dict_setitem(copied, screen_name, scr)
    IN  Outcome(self, Return(TermGraph), <<cols>>)

\* Pipeline.to_graph; what TermGraph does with the mapping is not modelled
to_graph(self, screen_name, default_screen) ==
    LET copied == dict_copy(self.columns)
        scr == IF self.screen = None THEN default_screen ELSE self.screen
        cols == dict_setitem(copied, screen_name, scr)
    IN  Outcome(self, Return(TermGraph), <<cols>>)

---------------------------------------------------------------------------
(* Arguments the calls draw from *)

NameStrings == <<"f", "g", "x", "not_a_real_name">>
Names == {PyStr(NameStrings[i]) : i \in 1..MaxNames}

Factors == {SomeFactor, SomeOtherFactor}
Filters == {SomeFilter, SomeOtherFilter}

\* keys and values of the mapping given to the constructor
InitKeys == Names \cup {PyInt(1)}
InitValues == {SomeFactor, PyInt(1)}
InitDicts == UNION {[ks -> InitValues] : ks \in SUBSET InitKeys}

InitNameArgs == {PyStr("test"), PyInt(1)}
InitColumnsArgs == {None, PyInt(1)} \cup {Dict(d) : d \in InitDicts}
InitScreenArgs == {None, SomeFilter, SomeFactor, PyInt(1)}

TermArgs == Factors \cup {SomeFilter, PyInt(1)}
NameArgs == Names \cup {PyInt(1)}
ScreenArgs == Filters \cup {SomeFactor, None}
DefaultScreenArgs == {SomeFilter, SomeFactor, PyInt(1)}

---------------------------------------------------------------------------
(* The state machine *)

Here == Self(name, columns, screen)

\* the latest call was c and came out as out
Apply(c, out) ==
    /\ call' = c
    /\ pre' = Here
    /\ name' = out.self.name
    /\ columns' = out.self.columns
    /\ screen' = out.self.screen
    /\ ret' = out.ret
    /\ graph_args' = out.graph_args
    /\ UNCHANGED <<constructed, heap, objs, made, heap_pre>>

Init ==
    \E n \in InitNameArgs, c \in InitColumnsArgs, s \in InitScreenArgs :
        LET out == Pipeline(n, c, s)
        IN  /\ call = [op |-> "__init__", name |-> n, columns |-> c, screen |-> s]
            /\ constructed = out.constructed
            /\ name = out.self.name
            /\ columns = out.self.columns
            /\ screen = out.self.screen
            /\ ret = out.ret
            /\ graph_args = <<>>
            /\ pre = out.self
            /\ heap = <<>> /\ objs = <<>> /\ made = <<>> /\ heap_pre = <<>>

Add ==
    /\ constructed
    /\ \E term \in TermArgs, nm \in NameArgs, overwrite \in BOOLEAN :
           Apply([op |-> "add", term |-> term, name |-> nm, overwrite |-> overwrite],
                 add(Here, term, nm, overwrite))

Remove ==
    /\ constructed
    /\ \E nm \in NameArgs :
           Apply([op |-> "remove", name |-> nm], remove(Here, nm))

SetScreen ==
    /\ constructed
    /\ \E scr \in ScreenArgs, overwrite \in BOOLEAN :
           Apply([op |-> "set_screen", screen |-> scr, overwrite |-> overwrite],
                 set_screen(Here, scr, overwrite))

ToGraph ==
    /\ constructed
    /\ \E screen_name \in NameArgs, default_screen \in DefaultScreenArgs :
           Apply([op |-> "to_graph", screen_name |-> screen_name,
                  default_screen |-> default_screen],
                 to_graph(Here, screen_name, default_screen))

Next == Add \/ Remove \/ SetScreen \/ ToGraph

Spec == Init /\ [][Next]_vars

---------------------------------------------------------------------------
(* Two containers.  A dict is an object on the heap and _columns holds a   *)
(* reference to it, so that two containers may hold the same dict.         *)

\* a reference to the dict object at address a
DictAt(a) == [cls |-> "dict", addr |-> a]

\* __init__ that stores a copy of the mapping it is given
new_Pipeline_copying(h, n, c, s) ==
    IF ~expect_types(<< <<n, required("str")>>,
                        <<c, optional("dict")>>,
                        <<s, optional("Filter")>> >>)
    THEN [constructed |-> FALSE, heap |-> h, self |-> Self(None, None, None)]
    ELSE [constructed |-> TRUE,
          heap |-> Append(h, IF c = None THEN EmptyDict ELSE h[c.addr]),
          self |-> Self(n, DictAt(Len(h) + 1), s)]

\* __init__ whose default for columns is one dict made once (columns={})
new_Pipeline_shared_default(h, n, c, s) ==
    IF ~expect_types(<< <<n, required("str")>>,
                        <<c, optional("dict")>>,
                        <<s, optional("Filter")>> >>)
    THEN [constructed |-> FALSE, heap |-> h, self |-> Self(None, None, None)]
    ELSE IF c = None
    THEN [constructed |-> TRUE,
          heap |-> IF h = <<>> THEN <<EmptyDict>> ELSE h,
          self |-> Self(n, DictAt(1), s)]
    ELSE [constructed |-> TRUE, heap |-> h, self |-> Self(n, c, s)]

\* Pipeline.__init__ on the heap: c is None or a reference to a dict.  A
\* missing columns makes a new empty dict; a given one is stored as it is.
new_Pipeline(h, n, c, s) ==
    IF ~expect_types(<< <<n, required("str")>>,
                        <<c, optional("dict")>>,
                        <<s, optional("Filter")>> >>)
    THEN [constructed |-> FALSE, heap |-> h, self |-> Self(None, None, None)]
    ELSE IF c = None
    THEN [constructed |-> TRUE,
          heap |-> Append(h, EmptyDict),
          self |-> Self(n, DictAt(Len(h) + 1), s)]
    ELSE [constructed |-> TRUE, heap |-> h, self |-> Self(n, c, s)]

\* container i with its columns read through the reference
View(h, o) == Self(o.name, h[o.columns.addr], o.screen)

\* columns of container i, now and before the latest call
ColumnsOf(i) == heap[objs[i].columns.addr]
ColumnsBefore(i) == heap_pre[objs[i].columns.addr]

\* the dicts the caller has made before constructing, and the columns
\* arguments of the two constructions: the same dict twice, two dicts of
\* equal content, or none
TwoInitDicts == UNION {[ks -> {SomeFactor}] : ks \in SUBSET Names}
TwoTermArgs == Factors \cup {PyInt(1)}

InitTwo ==
    \E d \in TwoInitDicts, how \in {"same", "distinct", "none"} :
        LET h0 == CASE how = "same" -> <<d>>
                    [] how = "distinct" -> <<d, d>>
                    [] how = "none" -> <<>>
            c1 == IF how = "none" THEN None ELSE DictAt(1)
            c2 == CASE how = "same" -> DictAt(1)
                    [] how = "distinct" -> DictAt(2)
                    [] how = "none" -> None
            p == new_Pipeline(h0, PyStr("test"), c1, None)
            q == new_Pipeline(p.heap, PyStr("test"), c2, None)
        IN  /\ heap = q.heap
            /\ heap_pre = q.heap
            /\ objs = <<p.self, q.self>>
            /\ made = <<[name |-> PyStr("test"), columns |-> c1, screen |-> None],
                        [name |-> PyStr("test"), columns |-> c2, screen |-> None]>>
            /\ call = [op |-> "__init__", self |-> 2, name |-> PyStr("test"),
                       columns |-> c2, screen |-> None]
            /\ ret = Return(None)
            /\ constructed = (p.constructed /\ q.constructed)
            /\ name = None /\ columns = EmptyDict /\ screen = None
            /\ graph_args = <<>>
            /\ pre = Self(None, EmptyDict, None)

\* the latest call was c, on container i, and came out as out: what it did
\* to columns it did to the dict object, what it did to screen to the slot
ApplyTwo(i, c, out) ==
    /\ call' = c
    /\ ret' = out.ret
    /\ heap_pre' = heap
    /\ heap' = [heap EXCEPT ![objs[i].columns.addr] = out.self.columns]
    /\ objs' = [objs EXCEPT ![i].screen = out.self.screen]
    /\ UNCHANGED <<made, constructed, name, columns, screen, graph_args, pre>>

AddTwo ==
    /\ constructed
    /\ \E i \in 1..2, term \in TwoTermArgs, nm \in Names, overwrite \in BOOLEAN :
           ApplyTwo(i, [op |-> "add", self |-> i, term |-> term, name |-> nm,
                        overwrite |-> overwrite],
                    add(View(heap, objs[i]), term, nm, overwrite))

RemoveTwo ==
    /\ constructed
    /\ \E i \in 1..2, nm \in Names :
           ApplyTwo(i, [op |-> "remove", self |-> i, name |-> nm],
                    remove(View(heap, objs[i]), nm))

NextTwo == AddTwo \/ RemoveTwo

SpecTwo == InitTwo /\ [][NextTwo]_vars

---------------------------------------------------------------------------
(* Properties *)

\* the latest call was to method op of a container that exists
Called(op) == constructed /\ call.op = op

IsStr(v) == isinstance(v, "str")
IsTerm(v) == isinstance(v, "Term")
IsFilter(v) == isinstance(v, "Filter")

Unchanged == name = pre.name /\ columns = pre.columns /\ screen = pre.screen

\* C1: add(term, name) without overwrite, for a Term and a string name that
\* is already a key of columns, raises a KeyError whose only argument is the
\* message naming exactly that key, and leaves columns, the term bound to
\* name included, and screen as they were.
C1_AddCollision ==
    (Called("add") /\ ~call.overwrite /\ IsTerm(call.term) /\ IsStr(call.name)
        /\ call.name \in DOMAIN pre.columns)
    => /\ ret.exc = "KeyError"
       /\ ret.args = <<PyStr("Column '" \o call.name.val \o "' already exists.")>>
       /\ columns = pre.columns
       /\ columns[call.name] = pre.columns[call.name]
       /\ screen = pre.screen

C1_Witness ==
    /\ Called("add") /\ ~call.overwrite /\ IsTerm(call.term) /\ IsStr(call.name)
    /\ call.name \in DOMAIN pre.columns
    /\ call.term # pre.columns[call.name]
    /\ ret.exc = "KeyError"

\* C2: remove(name) of a string name absent from columns raises a KeyError
\* whose arguments are exactly (name,) and leaves columns and screen as they
\* were.  A second remove(name) fails this way because a successful
\* remove(name) leaves name absent, and a name that is absent stays absent
\* through every call but a successful add of that name.
C2_RemoveAbsent ==
    /\ (Called("remove") /\ IsStr(call.name) /\ call.name \notin DOMAIN pre.columns)
       => /\ ret.exc = "KeyError"
          /\ ret.args = <<call.name>>
          /\ columns = pre.columns
          /\ screen = pre.screen
    /\ (Called("remove") /\ ret.exc = "none") => call.name \notin DOMAIN columns
    /\ \A k \in DOMAIN columns \ DOMAIN pre.columns :
          Called("add") /\ ret.exc = "none" /\ call.name = k

C2_Witness ==
    /\ Called("remove") /\ IsStr(call.name)
    /\ call.name \notin DOMAIN pre.columns
    /\ pre.columns # EmptyDict
    /\ ret.exc = "KeyError"

\* C3: set_screen(g) without overwrite, for a Filter g, on a container whose
\* screen is set raises a ValueError and leaves the screen, and the columns,
\* as they were, also when g is the screen already set.
C3_SetScreenConflict ==
    (Called("set_screen") /\ ~call.overwrite /\ IsFilter(call.screen)
        /\ pre.screen # None)
    => /\ ret.exc = "ValueError"
       /\ screen = pre.screen
       /\ columns = pre.columns

C3_Witness ==
    /\ Called("set_screen") /\ ~call.overwrite
    /\ pre.screen # None
    /\ IsFilter(call.screen) /\ call.screen # pre.screen
    /\ ret.exc = "ValueError"

\* the latest call had an argument that is not of the type expected of it
IllTyped ==
    \/ Called("add") /\ (~IsTerm(call.term) \/ ~IsStr(call.name))
    \/ Called("remove") /\ ~IsStr(call.name)
    \/ Called("set_screen") /\ ~IsFilter(call.screen)

\* C4: an add, remove or set_screen call with an argument that is not of
\* the type expected of it (term not a Term, name not a string, screen not
\* a Filter, None included) raises a TypeError and leaves name, columns and
\* screen as they were, also with overwrite=True.
C4_TypeErrorBeforeMutation ==
    IllTyped => ret.exc = "TypeError" /\ Unchanged

C4_Witness ==
    /\ Called("add") /\ call.overwrite
    /\ ~IsTerm(call.term) /\ IsStr(call.name)
    /\ call.name \in DOMAIN pre.columns
    /\ ret.exc = "TypeError"

\* C5 (I1): every key of columns is a string and every value of columns is
\* a Term.
C5_I1 ==
    constructed => \A k \in DOMAIN columns : IsStr(k) /\ IsTerm(columns[k])

\* C6 (I2): screen is None or a Filter; a Term that is not a Filter is never
\* the screen.
C6_I2 ==
    constructed => (screen = None \/ IsFilter(screen))

C6_Witness ==
    /\ Called("set_screen") /\ call.overwrite
    /\ IsTerm(call.screen) /\ ~IsFilter(call.screen)
    /\ IsFilter(screen)

\* C7: to_graph(screen_name, default_screen) leaves columns and screen as
\* they were: screen_name gets no entry in columns, an entry it has keeps
\* its term, and default_screen does not become the screen.
C7_ToGraphNoMutation ==
    Called("to_graph")
    => /\ columns = pre.columns
       /\ screen = pre.screen
       /\ (call.screen_name \notin DOMAIN pre.columns
              => call.screen_name \notin DOMAIN columns)
       /\ (pre.screen = None => screen = None)

C7_Witness ==
    /\ Called("to_graph")
    /\ call.screen_name \in DOMAIN columns
    /\ screen = None
    /\ Len(graph_args) = 1
    /\ graph_args[1][call.screen_name] = call.default_screen
    /\ columns[call.screen_name] # call.default_screen

\* remove(name) and then add(term, name) without overwrite, from the state
\* before the latest call
RemoveThenAdd(term, nm) == add(remove(pre, nm).self, term, nm, FALSE)

\* C8: add(term, name, overwrite=True), for a Term and a string name that is
\* already a key, succeeds; afterwards columns[name] is the new term, every
\* other entry and the key set are as before, and so is screen; the state is
\* the one that remove(name) and then add(term, name) lead to.
C8_AddOverwrite ==
    (Called("add") /\ call.overwrite /\ IsTerm(call.term) /\ IsStr(call.name)
        /\ call.name \in DOMAIN pre.columns)
    => /\ ret = Return(None)
       /\ DOMAIN columns = DOMAIN pre.columns
       /\ columns[call.name] = call.term
       /\ \A k \in DOMAIN pre.columns \ {call.name} : columns[k] = pre.columns[k]
       /\ screen = pre.screen
       /\ RemoveThenAdd(call.term, call.name).ret = Return(None)
       /\ Here = RemoveThenAdd(call.term, call.name).self

C8_Witness ==
    /\ Called("add") /\ call.overwrite /\ IsTerm(call.term) /\ IsStr(call.name)
    /\ call.name \in DOMAIN pre.columns
    /\ pre.columns[call.name] # call.term
    /\ Cardinality(DOMAIN pre.columns) > 1
    /\ ret.exc = "none"

\* C9: remove(name) of a string name that is a key of columns returns the
\* term that was bound to name; afterwards name is not a key and every other
\* entry is as before.
C9_RemovePresent ==
    (Called("remove") /\ IsStr(call.name) /\ call.name \in DOMAIN pre.columns)
    => /\ ret = Return(pre.columns[call.name])
       /\ call.name \notin DOMAIN columns
       /\ DOMAIN columns = DOMAIN pre.columns \ {call.name}
       /\ \A k \in DOMAIN columns : columns[k] = pre.columns[k]

C9_Witness ==
    /\ Called("remove") /\ IsStr(call.name)
    /\ call.name \in DOMAIN pre.columns
    /\ Cardinality(DOMAIN pre.columns) > 1
    /\ ret.exc = "none"

\* C10: set_screen(s) for a Filter s fails exactly when overwrite is False
\* and a screen is set; in every other case it succeeds and s is the screen
\* afterwards.
C10_SetScreen ==
    (Called("set_screen") /\ IsFilter(call.screen))
    => IF pre.screen # None /\ ~call.overwrite
       THEN ret.exc # "none"
       ELSE ret = Return(None) /\ screen = call.screen

C10_Witness ==
    /\ Called("set_screen") /\ IsFilter(call.screen)
    /\ call.overwrite
    /\ pre.screen # None /\ pre.screen # call.screen
    /\ screen = call.screen

C10_WitnessFirstSet ==
    /\ Called("set_screen") /\ IsFilter(call.screen)
    /\ ~call.overwrite
    /\ pre.screen = None
    /\ screen = call.screen

\* the screen a to_graph call resolves: the container's, or default_screen
EffectiveScreen == IF pre.screen = None THEN call.default_screen ELSE pre.screen

\* C11 as claimed: the mapping handed to TermGraph holds every entry of
\* columns and one more, screen_name bound to the effective screen, so it
\* has exactly one entry more than columns.
C11_OneMoreEntry ==
    Called("to_graph")
    => /\ Len(graph_args) = 1
       /\ \A k \in DOMAIN columns :
             k \in DOMAIN graph_args[1] /\ graph_args[1][k] = columns[k]
       /\ call.screen_name \in DOMAIN graph_args[1]
       /\ graph_args[1][call.screen_name] = EffectiveScreen
       /\ Cardinality(DOMAIN graph_args[1]) = Cardinality(DOMAIN columns) + 1

\* C11 as amended: the mapping handed to TermGraph holds every entry of
\* columns whose key is not screen_name, and screen_name bound to the
\* effective screen; it has one entry more than columns when screen_name is
\* not a key of columns, and as many as columns when it is.
C11_GraphMapping ==
    Called("to_graph")
    => /\ Len(graph_args) = 1
       /\ DOMAIN graph_args[1] = DOMAIN columns \cup {call.screen_name}
       /\ \A k \in DOMAIN columns \ {call.screen_name} :
             graph_args[1][k] = columns[k]
       /\ graph_args[1][call.screen_name] = EffectiveScreen
       /\ Cardinality(DOMAIN graph_args[1]) =
             IF call.screen_name \in DOMAIN columns
             THEN Cardinality(DOMAIN columns)
             ELSE Cardinality(DOMAIN columns) + 1

C11_Witness ==
    /\ Called("to_graph")
    /\ call.screen_name \notin DOMAIN columns
    /\ columns # EmptyDict
    /\ pre.screen # None /\ pre.screen # call.default_screen
    /\ Len(graph_args) = 1
    /\ Cardinality(DOMAIN graph_args[1]) = Cardinality(DOMAIN columns) + 1

\* C12: every mapping handed to TermGraph has only string keys and only
\* Term values.
C12_CompilerContract ==
    Called("to_graph")
    => \A i \in 1..Len(graph_args) :
          \A k \in DOMAIN graph_args[i] : IsStr(k) /\ IsTerm(graph_args[i][k])

\* the constructor's arguments are of the types it expects
WellTypedInit ==
    /\ IsStr(call.name)
    /\ (call.columns = None \/ isinstance(call.columns, "dict"))
    /\ (call.screen = None \/ IsFilter(call.screen))

C13_WitnessFailure ==
    /\ call.op = "__init__" /\ ~constructed
    /\ IsStr(call.name) /\ IsTerm(call.screen) /\ ~IsFilter(call.screen)

\* C14: to_graph with a screen_name that is a key of columns raises nothing;
\* the mapping handed to TermGraph binds screen_name to the effective
\* screen, has as many entries as columns, and columns still binds
\* screen_name to the column's term.
C14_ScreenNameCollision ==
    (Called("to_graph") /\ call.screen_name \in DOMAIN pre.columns)
    => /\ ret = Return(TermGraph)
       /\ Len(graph_args) = 1
       /\ graph_args[1][call.screen_name] = EffectiveScreen
       /\ Cardinality(DOMAIN graph_args[1]) = Cardinality(DOMAIN columns)
       /\ call.screen_name \in DOMAIN columns
       /\ columns[call.screen_name] = pre.columns[call.screen_name]

C14_Witness ==
    /\ Called("to_graph") /\ call.screen_name \in DOMAIN pre.columns
    /\ IsStr(call.screen_name)
    /\ EffectiveScreen # pre.columns[call.screen_name]
    /\ ret.exc = "none"
    /\ columns[call.screen_name] # graph_args[1][call.screen_name]

\* C16: name stays the name given at construction; a successful add or
\* remove changes no entry of columns but the one keyed by its name, and not
\* the screen; a successful set_screen changes nothing but the screen.
C16_Frame ==
    /\ call.op = "__init__" /\ constructed => name = call.name
    /\ constructed => name = pre.name
    /\ ((Called("add") \/ Called("remove")) /\ ret.exc = "none")
       => /\ screen = pre.screen
          /\ DOMAIN columns \ {call.name} = DOMAIN pre.columns \ {call.name}
          /\ \A k \in DOMAIN columns \ {call.name} : columns[k] = pre.columns[k]
    /\ (Called("set_screen") /\ ret.exc = "none") => columns = pre.columns

C16_Witness ==
    /\ Called("add") /\ call.overwrite /\ ret.exc = "none"
    /\ call.name \in DOMAIN pre.columns
    /\ pre.columns[call.name] # call.term
    /\ DOMAIN pre.columns \ {call.name} # {}
    /\ screen # None

\* C17: in every state of a container, add(t, n, overwrite=True) succeeds
\* for every Term t and string n, and set_screen(s, overwrite=True) succeeds
\* for every Filter s: there is no state from which the container cannot be
\* mutated.
C17_NoTerminalState ==
    constructed
    => /\ \A t \in {v \in TermArgs : IsTerm(v)}, n \in Names :
             /\ add(Here, t, n, TRUE).ret = Return(None)
             /\ add(Here, t, n, TRUE).self.columns[n] = t
       /\ \A s \in Filters :
             /\ set_screen(Here, s, TRUE).ret = Return(None)
             /\ set_screen(Here, s, TRUE).self.screen = s

C17_Witness ==
    /\ Called("add") /\ call.overwrite /\ ret = Return(None)
    /\ call.name \notin DOMAIN pre.columns
    /\ pre.screen # None
    /\ columns[call.name] = call.term

\* C18: from every state of a container, for a name bound in columns,
\* remove(name) and then add(returned term, name) without overwrite succeed
\* and columns is the mapping it was; for a name not bound and a Term t,
\* add(t, name) and then remove(name) succeed, remove returns t, and columns
\* is the mapping it was.
C18_RoundTrip ==
    constructed
    => /\ \A n \in Names \cap DOMAIN columns :
             LET removed == remove(Here, n)
                 added == add(removed.self, removed.ret.value, n, FALSE)
             IN  /\ removed.ret.exc = "none"
                 /\ added.ret.exc = "none"
                 /\ added.self.columns = columns
       /\ \A n \in Names \ DOMAIN columns, t \in {v \in TermArgs : IsTerm(v)} :
             LET added == add(Here, t, n, FALSE)
                 removed == remove(added.self, n)
             IN  /\ added.ret.exc = "none"
                 /\ removed.ret = Return(t)
                 /\ removed.self.columns = columns

\* C19: a screen that is set stays set: no call takes a container from a
\* state with a screen to a state without one.
C19_ScreenStaysSet == [][screen # None => screen' # None]_vars

C19_Witness ==
    /\ Called("set_screen") /\ call.overwrite
    /\ call.screen = None
    /\ pre.screen # None
    /\ screen = pre.screen

\* the two containers were constructed with the same mapping object
SameMapping == made[1].columns # None /\ made[1].columns = made[2].columns

\* the other of the two containers
Other(i) == 3 - i

\* the latest call was a successful add or remove
Mutated == call.op \in {"add", "remove"} /\ ret.exc = "none"

\* C15: two containers share their columns exactly when they were
\* constructed with the same mapping object.  Constructed with the same
\* mapping, what a successful add or remove on one does to its columns shows
\* in the columns of the other; constructed otherwise, and with no columns
\* argument in particular, no call on one changes the columns of the other.
C15_Sharing ==
    /\ (objs[1].columns = objs[2].columns) <=> SameMapping
    /\ SameMapping
       => /\ ColumnsOf(1) = ColumnsOf(2)
          /\ Mutated /\ call.op = "add"
                => /\ call.name \in DOMAIN ColumnsOf(Other(call.self))
                   /\ ColumnsOf(Other(call.self))[call.name] = call.term
          /\ Mutated /\ call.op = "remove"
                => /\ call.name \in DOMAIN ColumnsBefore(Other(call.self))
                   /\ call.name \notin DOMAIN ColumnsOf(Other(call.self))
    /\ ~SameMapping
       => (call.op \in {"add", "remove"}
              => ColumnsOf(Other(call.self)) = ColumnsBefore(Other(call.self)))

C15_Witness ==
    /\ SameMapping
    /\ Mutated /\ call.op = "add" /\ call.self = 1
    /\ call.name \notin DOMAIN ColumnsBefore(2)
    /\ ColumnsOf(2)[call.name] = call.term

C15_WitnessApart ==
    /\ made[1].columns = None /\ made[2].columns = None
    /\ Mutated /\ call.self = 1
    /\ ColumnsOf(1) # ColumnsBefore(1)
    /\ ColumnsOf(2) = ColumnsBefore(2)
    /\ ColumnsOf(1) # ColumnsOf(2)

====
